---- MODULE Spec2Model ----
(***************************************************************************)
(* taskApi: an HTTP CRUD service over one table "tasks".                   *)
(* The model covers the table and its id sequence (migrations.go), the     *)
(* five request handlers (package hand), the router constraints and the    *)
(* start-up / shutdown sequence of main.  Handlers run concurrently; each  *)
(* store call is one atomic step of the store.                             *)
(***************************************************************************)
EXTENDS Integers, Sequences, FiniteSets

VARIABLES
    tasks,          \* rows of table tasks
    seq,            \* last value issued by the sequence behind id SERIAL
    now,            \* the server's clock, in whole seconds
    srv,            \* position of main
    dbClosed,       \* db.Close() has been called
    inflight,       \* handlers that are running, each at its next store call
    resp,           \* the HTTP response written by the last step (NoResp if none)
    returned,       \* history: ids returned by a 201 response
    removed,        \* history: ids whose row has been removed
    del204,         \* history: ids some DELETE answered 204 for
    delIns,         \* history: ids some DELETE answered 204 for after a create had returned them
    nDel204,        \* history: number of 204 responses of DELETE
    callAfterClose  \* history: a handler issued a store call after db.Close()

vars == <<tasks, seq, now, srv, dbClosed, inflight, resp, returned, removed,
          del204, delIns, nDel204, callAfterClose>>

hist == <<returned, removed, del204, delIns, nDel204>>

----------------------------------------------------------------------------
(* Bounds of the model *)

MaxId == 2
MaxTime == 1
MaxInFlight == 2
MaxDeletes == 2

----------------------------------------------------------------------------
(* Values *)

NoTime == -1

Task(id, title, description, due, created, updated) ==
    [id |-> id, title |-> title, description |-> description, due_date |-> due,
     created_at |-> created, updated_at |-> updated]

ZeroTask == Task(0, 0, 0, 0, NoTime, NoTime)

\* request bodies: two well-formed ones (the second also carries id and the
\* timestamps) and one that is not JSON
BodyA == [ok |-> TRUE, task |-> Task(0, 1, 1, 1, NoTime, NoTime)]
BodyB == [ok |-> TRUE, task |-> Task(7, 2, 2, 0, 99, 99)]
BodyMalformed == [ok |-> FALSE, task |-> ZeroTask]
Bodies == {BodyA, BodyB, BodyMalformed}

\* json.NewDecoder(r.Body).Decode(&task)
Decode(body) == [err |-> ~body.ok, task |-> body.task]

----------------------------------------------------------------------------
(* Path segments are sequences of ASCII codes *)

IsDigit(c) == c >= 48 /\ c <= 57

SegOf(n) == <<48 + n>>
SegAbc == <<97, 98, 99>>
SegHuge == [i \in 1..20 |-> 57]
IdSegs == {SegOf(n) : n \in 1..MaxId} \cup {SegAbc, SegHuge}

\* the route pattern {id:[0-9]+}
RouteMatches(seg) == Len(seg) > 0 /\ \A i \in 1..Len(seg) : IsDigit(seg[i])

RECURSIVE Horner(_, _)
Horner(seg, acc) ==
    IF seg = <<>> THEN acc ELSE Horner(Tail(seg), acc * 10 + (Head(seg) - 48))

\* strconv.Atoi on a 64-bit int: a syntax error on a non-digit, a range error
\* on a value that needs more than 19 digits
Atoi(seg) ==
    IF ~RouteMatches(seg) THEN [err |-> TRUE, n |-> 0]
    ELSE IF Len(seg) > 19 THEN [err |-> TRUE, n |-> 0]
    ELSE [err |-> FALSE, n |-> Horner(seg, 0)]

----------------------------------------------------------------------------
(* The store: table tasks (id SERIAL PRIMARY KEY, ...) *)

\* faulty variant: the id taken as the largest id in the table plus one
NextValMaxPlusOne(s) ==
    IF tasks = {} THEN 1
    ELSE (CHOOSE m \in {t.id : t \in tasks} : \A t \in tasks : t.id <= m) + 1

\* nextval of the sequence behind SERIAL
NextVal(s) == s + 1

HasRow(rows, id) == \E t \in rows : t.id = id
RowOf(rows, id) == CHOOSE t \in rows : t.id = id

\* INSERT INTO tasks (title, description, due_date, created_at, updated_at) ... RETURNING id
InsertRow(rows, id, t) ==
    rows \cup {Task(id, t.title, t.description, t.due_date, t.created_at, t.updated_at)}

\* faulty variant: the rows without a due date are left out
SelectAllDue(rows) == {r \in rows : r.due_date # 0}

\* SELECT id, title, description, due_date, created_at, updated_at FROM tasks
SelectAll(rows) == rows

\* faulty variant: the UPDATE also writes the body's created_at
UpdateRowCreatedAt(rows, id, t) ==
    {IF r.id = id
       THEN Task(r.id, t.title, t.description, t.due_date, t.created_at, t.updated_at)
       ELSE r : r \in rows}

\* UPDATE tasks SET title=$1, description=$2, due_date=$3, updated_at=$4 WHERE id=$5
UpdateRow(rows, id, t) ==
    {IF r.id = id
       THEN Task(r.id, t.title, t.description, t.due_date, r.created_at, t.updated_at)
       ELSE r : r \in rows}

\* faulty variant: the DELETE removes nothing
DeleteRowNone(rows, id) == rows

\* faulty variant: the DELETE takes the rows up to the id
DeleteRowUpTo(rows, id) == {r \in rows : r.id > id}

\* DELETE FROM tasks WHERE id=$1
DeleteRow(rows, id) == {r \in rows : r.id # id}

\* what a store call can come to: done, or failed without effect (the
\* connection is lost, the 5 second context expires, the database is closed)
Outcomes == IF dbClosed THEN {"fail"} ELSE {"ok", "fail"}

----------------------------------------------------------------------------
(* Responses *)

\* a response: the handler (kind), the status, and what decided it: call is
\* "nomatch" (no route), "nocall" (rejected before the store call), "ok",
\* "norows" or "error" (the store call's result); n is the length of the JSON
\* array written, rows the number of rows the statement found or changed
Resp(kind, status, call, id, task, n, rows, seg) ==
    [kind |-> kind, status |-> status, call |-> call, id |-> id, task |-> task,
     n |-> n, rows |-> rows, seg |-> seg]

NoResp == Resp("none", 0, "nocall", 0, ZeroTask, 0, 0, <<>>)

InFlight(pc, id, task, existing) ==
    [pc |-> pc, id |-> id, task |-> task, existing |-> existing]

Accepting == srv = "serving" /\ Cardinality(inflight) < MaxInFlight
Running == srv # "exited"

----------------------------------------------------------------------------
Init ==
    /\ tasks = {}
    /\ seq = 0
    /\ now = 0
    /\ srv = "serving"
    /\ dbClosed = FALSE
    /\ inflight = {}
    /\ resp = NoResp
    /\ returned = {}
    /\ removed = {}
    /\ del204 = {}
    /\ delIns = {}
    /\ nDel204 = 0
    /\ callAfterClose = FALSE

----------------------------------------------------------------------------
\* the server's clock advances
Tick ==
    /\ Running
    /\ now < MaxTime
    /\ now' = now + 1
    /\ resp' = NoResp
    /\ UNCHANGED <<tasks, seq, srv, dbClosed, inflight, hist, callAfterClose>>

----------------------------------------------------------------------------
(* Router: r.HandleFunc("/tasks/{id:[0-9]+}", ...) *)

\* a path /tasks/<seg> that matches no route: mux answers 404, no handler runs
RouterNotFound ==
    /\ Accepting
    /\ \E seg \in IdSegs, method \in {"get", "update", "delete"} :
          /\ ~RouteMatches(seg)
          /\ resp' = Resp(method, 404, "nomatch", 0, ZeroTask, 0, 0, seg)
    /\ UNCHANGED <<tasks, seq, now, srv, dbClosed, inflight, hist, callAfterClose>>

----------------------------------------------------------------------------
(* CreateTask *)

\* task.CreatedAt = time.Now().Format(time.RFC3339); task.UpdatedAt = task.CreatedAt
\* (RFC3339 keeps the whole seconds of the clock)
StampCreated(task, t) == [task EXCEPT !.created_at = t, !.updated_at = t]

\* faulty variant: updated_at is left as the body gave it
StampUpdatedBody(task, t) == task

\* task.UpdatedAt = time.Now().Format(time.RFC3339)
StampUpdated(task, t) == [task EXCEPT !.updated_at = t]

Pending(pc) == Cardinality({q \in inflight : q.pc = pc})

CreateTaskBegin ==
    /\ Accepting
    /\ seq + Pending("create") < MaxId
    /\ \E body \in Bodies :
          LET d == Decode(body)
              t == StampCreated(d.task, now)
          IN  IF d.err
                THEN /\ resp' = Resp("create", 400, "nocall", 0, ZeroTask, 0, 0, <<>>)
                     /\ inflight' = inflight
                ELSE /\ resp' = NoResp
                     /\ inflight' = inflight \cup {InFlight("create", 0, t, NoTime)}
    /\ UNCHANGED <<tasks, seq, now, srv, dbClosed, hist, callAfterClose>>

CreateTaskInsert ==
    /\ Running
    /\ \E q \in inflight :
          /\ q.pc = "create"
          /\ inflight' = inflight \ {q}
          /\ callAfterClose' = (callAfterClose \/ dbClosed)
          /\ \E out \in Outcomes :
                LET id == NextVal(seq)
                    t == [q.task EXCEPT !.id = id]
                IN  /\ seq' = IF out = "ok" THEN id ELSE seq
                    /\ tasks' = IF out = "ok" THEN InsertRow(tasks, id, q.task) ELSE tasks
                    /\ returned' = IF out = "ok" THEN returned \cup {id} ELSE returned
                    /\ resp' = IF out = "ok"
                                 THEN Resp("create", 201, "ok", id, t, 0, 1, <<>>)
                                 ELSE Resp("create", 500, "error", 0, ZeroTask, 0, 0, <<>>)
    /\ UNCHANGED <<now, srv, dbClosed, removed, del204, delIns, nDel204>>

----------------------------------------------------------------------------
(* GetTasks *)

\* Query, then the rows.Next()/rows.Scan loop.  rows.Err() is not read, so an
\* iteration that the store cuts short ends the loop like the last row does.
GetTasks ==
    /\ Accepting
    /\ \E out \in Outcomes \cup (IF tasks = {} THEN {} ELSE {"scan", "cut"}) :
          CASE out = "ok" ->
                 resp' = Resp("list", 200, "ok", 0, ZeroTask,
                              Cardinality(SelectAll(tasks)), Cardinality(tasks), <<>>)
            [] out = "cut" ->
                 \E part \in (SUBSET SelectAll(tasks)) \ {tasks} :
                    resp' = Resp("list", 200, "error", 0, ZeroTask,
                                 Cardinality(part), Cardinality(tasks), <<>>)
            [] OTHER ->
                 resp' = Resp("list", 500, "error", 0, ZeroTask, 0, 0, <<>>)
    /\ UNCHANGED <<tasks, seq, now, srv, dbClosed, inflight, hist, callAfterClose>>

----------------------------------------------------------------------------
(* GetTaskByID *)

\* every error of QueryRow(...).Scan(...) is answered 404
GetTaskByID ==
    /\ Accepting
    /\ \E seg \in IdSegs :
          /\ RouteMatches(seg)
          /\ LET a == Atoi(seg)
             IN  IF a.err
                   THEN resp' = Resp("get", 400, "nocall", 0, ZeroTask, 0, 0, seg)
                   ELSE \E out \in Outcomes :
                          resp' = IF out = "fail"
                                    THEN Resp("get", 404, "error", a.n, ZeroTask, 0, 0, <<>>)
                                  ELSE IF ~HasRow(tasks, a.n)
                                    THEN Resp("get", 404, "norows", a.n, ZeroTask, 0, 0, <<>>)
                                  ELSE Resp("get", 200, "ok", a.n, RowOf(tasks, a.n), 0, 1, <<>>)
    /\ UNCHANGED <<tasks, seq, now, srv, dbClosed, inflight, hist, callAfterClose>>

----------------------------------------------------------------------------
(* UpdateTask *)

UpdateTaskBegin ==
    /\ Accepting
    /\ \E seg \in IdSegs, body \in Bodies :
          /\ RouteMatches(seg)
          /\ LET d == Decode(body)
                 a == Atoi(seg)
             IN  IF d.err \/ a.err
                   THEN /\ resp' = Resp("update", 400, "nocall", 0, ZeroTask, 0, 0, seg)
                        /\ inflight' = inflight
                   ELSE /\ resp' = NoResp
                        /\ inflight' = inflight \cup {InFlight("updSelect", a.n, d.task, NoTime)}
    /\ UNCHANGED <<tasks, seq, now, srv, dbClosed, hist, callAfterClose>>

\* SELECT created_at FROM tasks WHERE id=$1 (every error is answered 404),
\* then the new updated_at is taken from the clock
UpdateTaskSelect ==
    /\ Running
    /\ \E q \in inflight :
          /\ q.pc = "updSelect"
          /\ callAfterClose' = (callAfterClose \/ dbClosed)
          /\ \E out \in Outcomes :
                IF out = "fail"
                  THEN /\ resp' = Resp("update", 404, "error", q.id, ZeroTask, 0, 0, <<>>)
                       /\ inflight' = inflight \ {q}
                ELSE IF ~HasRow(tasks, q.id)
                  THEN /\ resp' = Resp("update", 404, "norows", q.id, ZeroTask, 0, 0, <<>>)
                       /\ inflight' = inflight \ {q}
                ELSE /\ resp' = NoResp
                     /\ inflight' = (inflight \ {q}) \cup
                           {InFlight("updExec", q.id, StampUpdated(q.task, now),
                                     RowOf(tasks, q.id).created_at)}
    /\ UNCHANGED <<tasks, seq, now, srv, dbClosed, hist>>

\* the task written to the response: the body's fields, the new updated_at,
\* CreatedAt from the SELECT and ID from the path
UpdateReply(q) == [q.task EXCEPT !.created_at = q.existing, !.id = q.id]

\* UPDATE ... WHERE id=$5; the number of rows it changed is not read
UpdateTaskExec ==
    /\ Running
    /\ \E q \in inflight :
          /\ q.pc = "updExec"
          /\ inflight' = inflight \ {q}
          /\ callAfterClose' = (callAfterClose \/ dbClosed)
          /\ \E out \in Outcomes :
                LET hit == IF HasRow(tasks, q.id) THEN 1 ELSE 0
                IN  /\ tasks' = IF out = "ok" THEN UpdateRow(tasks, q.id, q.task) ELSE tasks
                    /\ resp' = IF out = "ok"
                                 THEN Resp("update", 200, "ok", q.id, UpdateReply(q), 0, hit, <<>>)
                                 ELSE Resp("update", 500, "error", q.id, ZeroTask, 0, 0, <<>>)
    /\ UNCHANGED <<seq, now, srv, dbClosed, hist>>

----------------------------------------------------------------------------
(* DeleteTask *)

DeleteTask ==
    /\ Accepting
    /\ nDel204 < MaxDeletes
    /\ \E seg \in IdSegs :
          /\ RouteMatches(seg)
          /\ LET a == Atoi(seg)
                 hit == IF HasRow(tasks, a.n) THEN 1 ELSE 0
             IN  IF a.err
                   THEN /\ resp' = Resp("delete", 400, "nocall", 0, ZeroTask, 0, 0, seg)
                        /\ UNCHANGED <<tasks, removed, del204, delIns, nDel204>>
                   ELSE \E out \in Outcomes :
                          /\ tasks' = IF out = "ok" THEN DeleteRow(tasks, a.n) ELSE tasks
                          /\ removed' = IF out = "ok" /\ hit = 1
                                          THEN removed \cup {a.n} ELSE removed
                          /\ del204' = IF out = "ok" THEN del204 \cup {a.n} ELSE del204
                          /\ delIns' = IF out = "ok" /\ a.n \in returned
                                         THEN delIns \cup {a.n} ELSE delIns
                          /\ nDel204' = IF out = "ok" THEN nDel204 + 1 ELSE nDel204
                          /\ resp' = IF out = "ok"
                                       THEN Resp("delete", 204, "ok", a.n, ZeroTask, 0, hit, <<>>)
                                       ELSE Resp("delete", 500, "error", a.n, ZeroTask, 0, 0, <<>>)
    /\ UNCHANGED <<seq, now, srv, dbClosed, inflight, returned, callAfterClose>>

----------------------------------------------------------------------------
(* main: shutdown *)

\* <-quit, then server.Shutdown(ctx): the listeners are closed
Interrupt ==
    /\ srv = "serving"
    /\ srv' = "shutting"
    /\ resp' = NoResp
    /\ UNCHANGED <<tasks, seq, now, dbClosed, inflight, hist, callAfterClose>>

\* server.Shutdown returns nil: no request is in flight any more
ShutdownDone ==
    /\ srv = "shutting"
    /\ inflight = {}
    /\ srv' = "stopped"
    /\ resp' = NoResp
    /\ UNCHANGED <<tasks, seq, now, dbClosed, inflight, hist, callAfterClose>>

\* server.Shutdown returns ctx's error: the 10 seconds ran out with a request
\* in flight; the error is logged and the handlers still running are left running
ShutdownTimeout ==
    /\ srv = "shutting"
    /\ inflight # {}
    /\ srv' = "stopped"
    /\ resp' = NoResp
    /\ UNCHANGED <<tasks, seq, now, dbClosed, inflight, hist, callAfterClose>>

\* main returns: the deferred db.Close() runs
Close ==
    /\ srv = "stopped"
    /\ srv' = "closed"
    /\ dbClosed' = TRUE
    /\ resp' = NoResp
    /\ UNCHANGED <<tasks, seq, now, inflight, hist, callAfterClose>>

\* the process exits, and its goroutines with it
Exit ==
    /\ srv = "closed"
    /\ srv' = "exited"
    /\ inflight' = {}
    /\ resp' = NoResp
    /\ UNCHANGED <<tasks, seq, now, dbClosed, hist, callAfterClose>>

----------------------------------------------------------------------------
Next ==
    \/ Tick
    \/ RouterNotFound
    \/ CreateTaskBegin
    \/ CreateTaskInsert
    \/ GetTasks
    \/ GetTaskByID
    \/ UpdateTaskBegin
    \/ UpdateTaskSelect
    \/ UpdateTaskExec
    \/ DeleteTask
    \/ Interrupt
    \/ ShutdownDone
    \/ ShutdownTimeout
    \/ Close
    \/ Exit

Spec == Init /\ [][Next]_vars

TypeOK ==
    /\ seq \in 0..MaxId
    /\ now \in 0..MaxTime
    /\ Cardinality(inflight) <= MaxInFlight
    /\ \A t \in tasks : t.id \in 1..seq

----------------------------------------------------------------------------
(* Claims *)

Called(r) == r.call \in {"ok", "norows", "error"}

\* C1: every POST /tasks answered 201 carries an id that is positive and that
\* no earlier create has returned (the ids of tasks deleted since included),
\* and created_at = updated_at in the response and in the row it stored.
C1_CreateFreshId ==
    [][(resp'.kind = "create" /\ resp'.status = 201) =>
          /\ resp'.task.id > 0
          /\ resp'.task.id \notin returned
          /\ resp'.task.created_at = resp'.task.updated_at
          /\ \E r \in tasks' : r.id = resp'.task.id /\ r.created_at = r.updated_at]_vars

\* a create answered 201 with id 2 after the task with id 1 was deleted, for a
\* body that carries an id of its own
C1_Witness ==
    /\ resp.kind = "create" /\ resp.status = 201
    /\ resp.task.id = 2 /\ resp.task.title = 2
    /\ 1 \in removed

\* C2: a PUT /tasks/{id} answered 200 changes no row's id or created_at, adds
\* and drops no row and leaves the other rows alone; the row of the id takes
\* the body's title, description and due_date and the new updated_at; the
\* response carries the path id and the row's created_at.
C2_UpdateKeepsIdCreatedAt ==
    [][(resp'.kind = "update" /\ resp'.status = 200) =>
          /\ \E q \in inflight \ inflight' : q.id = resp'.task.id
          /\ {r.id : r \in tasks'} = {r.id : r \in tasks}
          /\ Cardinality(tasks') = Cardinality(tasks)
          /\ \A r \in tasks : \E r2 \in tasks' :
                /\ r2.id = r.id /\ r2.created_at = r.created_at
                /\ r.id # resp'.task.id => r2 = r
                /\ r.id = resp'.task.id =>
                      /\ resp'.task.created_at = r.created_at
                      /\ r2 = resp'.task]_vars

\* an update answered 200 for a stored row, from the body that carries id 7
\* and created_at 99, one second after the row was created
C2_Witness ==
    /\ resp.kind = "update" /\ resp.status = 200 /\ resp.rows = 1
    /\ resp.task.title = 2
    /\ resp.task.updated_at > resp.task.created_at
    /\ HasRow(tasks, resp.id)

\* C3: a store call that fails is answered 500 by every handler.
C3_StoreErrorIs500 == resp.call = "error" => resp.status = 500

\* C4: a request for /tasks/<segment> with a non-numeric segment is answered 400.
C4_NonNumericIs400 ==
    (resp.seg # <<>> /\ ~RouteMatches(resp.seg)) => resp.status = 400

\* C5 as stated: once some DELETE has answered 204 for an id, a GET for that
\* id is answered 404.
C5_Original ==
    (resp.kind = "get" /\ Called(resp) /\ resp.id \in del204) => resp.status = 404

\* C5 as amended: once some DELETE has answered 204 for an id that a create had
\* returned before, every GET for that id is answered 404, whatever creates,
\* updates and deletes follow.
C5_DeletedStaysGone ==
    (resp.kind = "get" /\ Called(resp) /\ resp.id \in delIns) => resp.status = 404

\* a GET of the deleted id 1 finds no row while the task with id 2, created
\* later, is stored
C5_Witness ==
    /\ resp.kind = "get" /\ resp.id = 1 /\ resp.call = "norows" /\ resp.status = 404
    /\ 1 \in delIns
    /\ HasRow(tasks, 2)

\* C6 as stated: a DELETE for an id that has no row is answered 204 and leaves
\* the stored tasks as they are.
C6_Original ==
    [][(resp'.kind = "delete" /\ Called(resp') /\ ~HasRow(tasks, resp'.id)) =>
          resp'.status = 204 /\ tasks' = tasks]_vars

\* C6 as amended: a DELETE for an id that has no row (never created, or deleted
\* before) leaves the stored tasks as they are and is answered 204, or 500 when
\* its store call fails.
C6_DeleteAbsent ==
    [][(resp'.kind = "delete" /\ Called(resp') /\ ~HasRow(tasks, resp'.id)) =>
          /\ tasks' = tasks
          /\ resp'.status = IF resp'.call = "error" THEN 500 ELSE 204]_vars

\* the second DELETE of id 2 is answered 204 and the task with id 1 is still stored
C6_Witness ==
    /\ resp.kind = "delete" /\ resp.status = 204 /\ resp.rows = 0
    /\ resp.id = 2 /\ 2 \in removed
    /\ HasRow(tasks, 1)

C8_UpdatedNotBeforeCreated == \A t \in tasks : t.updated_at >= t.created_at

\* a task updated one second after it was created
C8_Witness == \E t \in tasks : t.updated_at > t.created_at /\ t.title = 1

\* C9: no handler issues a store call after db.Close().
C9_NoCallAfterClose == ~callAfterClose

\* C10: a PUT answered 200 has overwritten a row that was in the store when
\* its UPDATE ran.
C10_UpdateHitsRow ==
    (resp.kind = "update" /\ resp.status = 200) => resp.rows = 1
====
